---- MODULE Spec2Model ----
(***************************************************************************)
(* Model of the DeepRepo issue analyzer: DeepIssues (collect_data,         *)
(* analyze_data, generate_report) and the stage driver DeepRepoBase.run.   *)
(*                                                                         *)
(* Python dicts keep insertion order, so a dict is modelled as a sequence  *)
(* of [key, val] records with pairwise distinct keys.                      *)
(***************************************************************************)
EXTENDS Integers, Sequences, FiniteSets, TLC

VARIABLES
    repo,         \* what git_api.get_repo returned: TRUE a repository, FALSE a falsy value
    open_issues,  \* repo.get_issues(state='open'): sequence of [title, html_url]
    clustering,   \* the label vector fit_predict returns for the repository's titles
    issues,       \* self.issues   : ordered dict title -> url
    analysis,     \* self.analysis : ordered dict label -> list of "title: url"
    report,       \* the strings written to the report file, in order (<<>>: no file)
    log,          \* messages passed to self.log.error
    trace,        \* the method calls made so far, each with the exception it ended with
    pc,           \* position inside DeepRepoBase.run
    closed_issues,\* what repo.get_issues(state='closed', ...) yields, all lists in a row
    ISSUE_LABEL,  \* os.getenv("ISSUE_LABEL"): TRUE when set and not empty
    quality,      \* the DeepIssuesQuality object: [issues, analysis]
    runs,         \* deep_repo_main: the analyzers run so far, each with its stage calls
    exit_status   \* deep_repo_main: -1 while running, 0 after sys.exit(0),
                  \* 1 when an uncaught exception ended the process

\* the state of the issue-quality analyzer and of deep_repo_main
others == <<closed_issues, ISSUE_LABEL, quality, runs, exit_status>>

vars == <<repo, open_issues, clustering, issues, analysis, report, log, trace, pc,
          closed_issues, ISSUE_LABEL, quality, runs, exit_status>>

-----------------------------------------------------------------------------
(* Bounds and program constants *)

MaxIssues == 6          \* open issues a repository holds, at most
MaxCalls == 3           \* direct method calls made on one analyzer object
MaxClosed == 2          \* closed issues the repository yields, at most
MaxResources == 2       \* resource_compute_*.go files in the REPO_PATH directory, at most

NOISE == -1             \* the label HDBSCAN gives to unclustered items
min_cluster_size == 2   \* HDBSCAN(min_cluster_size=2, ...)

repo_url == "o/r"

-----------------------------------------------------------------------------
(* str() of a non-negative integer *)

Digit == <<"0", "1", "2", "3", "4", "5", "6", "7", "8", "9">>

RECURSIVE IntStr(_)
IntStr(n) ==
    IF n < 10 THEN Digit[n + 1]
    ELSE IntStr(n \div 10) \o Digit[(n % 10) + 1]

-----------------------------------------------------------------------------
(* Ordered dict primitives *)

Keys(d) == {d[i].key : i \in 1..Len(d)}

IndexOf(d, k) == CHOOSE i \in 1..Len(d) : d[i].key = k

\* Mutant: a list of pairs in place of a dict, every pair appended
DictUpdate_AlwaysAppend(d, k, v) == Append(d, [key |-> k, val |-> v])

\* d.update({k: v}): an existing key keeps its position and takes the new value
DictUpdate(d, k, v) ==
    IF k \in Keys(d) THEN [d EXCEPT ![IndexOf(d, k)].val = v]
    ELSE Append(d, [key |-> k, val |-> v])

\* d.pop(k) for a key that is present
DictRemove(d, k) ==
    LET i == IndexOf(d, k)
    IN  SubSeq(d, 1, i - 1) \o SubSeq(d, i + 1, Len(d))

-----------------------------------------------------------------------------
(* The environment: repositories and clusterer answers *)

Title(n) == "title" \o IntStr(n)
HtmlUrl(n) == "https://github.com/o/r/issues/" \o IntStr(n)

MaxOf(S) == IF S = {} THEN 0 ELSE CHOOSE m \in S : \A x \in S : x <= m

Range(s) == {s[i] : i \in 1..Len(s)}

\* Title numberings of n open issues. Titles are arbitrary strings, so they
\* are numbered by first occurrence: issue k either repeats an earlier title
\* or carries the next unused one.
RECURSIVE TitleSeqs(_)
TitleSeqs(n) ==
    IF n = 0 THEN {<< >>}
    ELSE UNION {{Append(s, t) : t \in 1..(MaxOf(Range(s)) + 1)} : s \in TitleSeqs(n - 1)}

\* Every issue has its own html_url (its number); titles may repeat.
IssuesOf(ts) == [i \in 1..Len(ts) |-> [title |-> Title(ts[i]), html_url |-> HtmlUrl(i)]]

Repositories == UNION {{IssuesOf(ts) : ts \in TitleSeqs(n)} : n \in 0..MaxIssues}

DistinctTitles(oi) == Cardinality({oi[i].title : i \in 1..Len(oi)})

\* Label vectors HDBSCAN can return for n items: NOISE or a cluster label per
\* item, cluster labels 0..k-1 all in use, every cluster with at least
\* min_cluster_size members.
LabelVectors[n \in 0..MaxIssues] ==
    {lv \in [1..n -> NOISE..((n \div min_cluster_size) - 1)] :
        \A c \in 0..((n \div min_cluster_size) - 1) :
            LET size == Cardinality({i \in 1..n : lv[i] = c})
            IN  /\ size = 0 \/ size >= min_cluster_size
                /\ size = 0 => \A i \in 1..n : lv[i] < c}

-----------------------------------------------------------------------------
(* DeepIssues.collect_data *)

\* for issue in open_issues: self.issues.update({issue.title: issue.html_url})
RECURSIVE UpdateAll(_, _)
UpdateAll(d, oi) ==
    IF oi = << >> THEN d
    ELSE UpdateAll(DictUpdate(d, Head(oi).title, Head(oi).html_url), Tail(oi))

\* Mutant: the check for an empty self.issues is missing
collect_data_NoEmptyCheck(self_issues, found, oi) ==
    IF ~found
    THEN [exc |-> "ValueError", msg |-> "Repository not found.", issues |-> self_issues]
    ELSE [exc |-> "None", msg |-> "", issues |-> UpdateAll(self_issues, oi)]

\* The exception collect_data ends with ("None": it returned) and self.issues
\* as it leaves it.
collect_data(self_issues, found, oi) ==
    IF ~found
    THEN [exc |-> "ValueError", msg |-> "Repository not found.", issues |-> self_issues]
    ELSE LET d == UpdateAll(self_issues, oi)
         IN  IF d = << >>
             THEN [exc |-> "ValueError", msg |-> "Issues not available", issues |-> d]
             ELSE [exc |-> "None", msg |-> "", issues |-> d]

-----------------------------------------------------------------------------
(* DeepIssues.analyze_data *)

\* f"{title}: {url}"
FormatEntry(item) == item.key \o ": " \o item.val

\* Mutant: the list of a label already met is replaced, not extended
SetDefaultAppend_Overwrite(d, label, entry) ==
    IF label \in Keys(d)
    THEN [d EXCEPT ![IndexOf(d, label)].val = <<entry>>]
    ELSE Append(d, [key |-> label, val |-> <<entry>>])

\* Mutant: the entry is put at the front of its list (insert(0, entry))
SetDefaultAppend_Prepend(d, label, entry) ==
    IF label \in Keys(d)
    THEN [d EXCEPT ![IndexOf(d, label)].val = <<entry>> \o @]
    ELSE Append(d, [key |-> label, val |-> <<entry>>])

\* self.analysis.setdefault(label, []).append(entry)
SetDefaultAppend(d, label, entry) ==
    IF label \in Keys(d)
    THEN [d EXCEPT ![IndexOf(d, label)].val = Append(@, entry)]
    ELSE Append(d, [key |-> label, val |-> <<entry>>])

\* for label, issue in zip(clustering, list(self.issues.items())): ...
RECURSIVE GroupByLabel(_, _, _)
GroupByLabel(d, labels, items) ==
    IF labels = << >> \/ items = << >> THEN d
    ELSE GroupByLabel(SetDefaultAppend(d, Head(labels), FormatEntry(Head(items))),
                      Tail(labels), Tail(items))

\* Mutant: x goes in front of the items whose list is as long as its own
RECURSIVE InsertBySize_Unstable(_, _)
InsertBySize_Unstable(s, x) ==
    IF s = << >> THEN <<x>>
    ELSE IF Len(Head(s).val) > Len(x.val)
         THEN <<Head(s)>> \o InsertBySize_Unstable(Tail(s), x)
         ELSE <<x>> \o s

\* One step of the stable descending sort: x goes behind every item whose
\* list is at least as long as its own.
RECURSIVE InsertBySize(_, _)
InsertBySize(s, x) ==
    IF s = << >> THEN <<x>>
    ELSE IF Len(Head(s).val) >= Len(x.val)
         THEN <<Head(s)>> \o InsertBySize(Tail(s), x)
         ELSE <<x>> \o s

\* Mutant: the sort without reverse=True (stable, ascending)
RECURSIVE InsertAscending(_, _)
InsertAscending(s, x) ==
    IF s = << >> THEN <<x>>
    ELSE IF Len(Head(s).val) <= Len(x.val)
         THEN <<Head(s)>> \o InsertAscending(Tail(s), x)
         ELSE <<x>> \o s

RECURSIVE SortBySize_NoReverse(_)
SortBySize_NoReverse(d) ==
    IF d = << >> THEN << >>
    ELSE InsertAscending(SortBySize_NoReverse(SubSeq(d, 1, Len(d) - 1)), d[Len(d)])

\* Mutant: sorted(...)[::-1], the ascending sort read backwards
RECURSIVE Reversed(_)
Reversed(s) == IF s = << >> THEN << >> ELSE Append(Reversed(Tail(s)), Head(s))

SortBySize_Backwards(d) == Reversed(SortBySize_NoReverse(d))

\* dict(sorted(d.items(), key=lambda item: len(item[1]), reverse=True));
\* sorted is stable, also under reverse=True.
RECURSIVE SortBySize(_)
SortBySize(d) ==
    IF d = << >> THEN << >>
    ELSE InsertBySize(SortBySize(SubSeq(d, 1, Len(d) - 1)), d[Len(d)])

\* Mutant: the noise group is left where the sort put it
RelocateNoise_Skipped(d) ==
    [exc |-> IF NOISE \notin Keys(d) THEN "KeyError" ELSE "None", analysis |-> d]

\* self.analysis[-1] = self.analysis.pop(-1): pop raises KeyError when the key
\* is missing; otherwise the noise list is taken out and stored again, which
\* puts its key last.
RelocateNoise(d) ==
    IF NOISE \notin Keys(d)
    THEN [exc |-> "KeyError", analysis |-> d]
    ELSE [exc |-> "None",
          analysis |-> Append(DictRemove(d, NOISE), d[IndexOf(d, NOISE)])]

\* The exception analyze_data ends with and self.analysis as it leaves it.
\* library_raises: the embedding model or the clusterer raised.
analyze_data(self_issues, self_analysis, labels, library_raises) ==
    IF self_issues = << >>
    THEN [exc |-> "ValueError", analysis |-> self_analysis]
    ELSE IF library_raises
    THEN [exc |-> "LibraryError", analysis |-> self_analysis]
    ELSE RelocateNoise(SortBySize(GroupByLabel(self_analysis, labels, self_issues)))

-----------------------------------------------------------------------------
(* DeepIssues.generate_report *)

\* Mutant: every group is numbered, the noise group too
Heading_AlwaysNumbered(i, label) == "### Group " \o IntStr(i + 1) \o ":\n\n"

\* Mutant: the group's label is printed in place of its position
Heading_ByLabel(i, label) ==
    "### Group " \o (IF label # NOISE THEN IntStr(label + 1) ELSE "Other") \o ":\n\n"

\* f"### Group {i+1 if label != -1 else 'Other'}:\n\n", i the 0-based position
Heading(i, label) ==
    "### Group " \o (IF label # NOISE THEN IntStr(i + 1) ELSE "Other") \o ":\n\n"

RECURSIVE Bullets(_)
Bullets(entries) ==
    IF entries = << >> THEN << >>
    ELSE <<"* " \o Head(entries) \o "\n">> \o Bullets(Tail(entries))

Separator == "\n---------------------------------\n\n"

\* The writes of the loop over enumerate(self.analysis.items()), from position i on
RECURSIVE GroupWrites(_, _)
GroupWrites(d, i) ==
    IF i >= Len(d) THEN << >>
    ELSE <<Heading(i, d[i + 1].key)>> \o Bullets(d[i + 1].val) \o <<Separator>>
            \o GroupWrites(d, i + 1)

\* The exception generate_report ends with and the strings it wrote.
generate_report(self_analysis) ==
    IF self_analysis = << >>
    THEN [exc |-> "ValueError", file |-> << >>]
    ELSE [exc |-> "None",
          file |-> <<"# Issues Analysis Report for " \o repo_url \o "\n\n">>
                      \o GroupWrites(self_analysis, 0)]

-----------------------------------------------------------------------------
(* State after construction: DeepIssues.__init__ on some repository *)

Init ==
    /\ repo \in BOOLEAN
    /\ open_issues \in (IF repo THEN Repositories ELSE {<< >>})
    /\ clustering \in LabelVectors[DistinctTitles(open_issues)]
    /\ issues = << >>
    /\ analysis = << >>
    /\ report = << >>
    /\ log = << >>
    /\ trace = << >>
    /\ pc = "start"
    /\ closed_issues = << >>
    /\ ISSUE_LABEL = FALSE
    /\ quality = [issues |-> << >>, analysis |-> << >>]
    /\ runs = << >>
    /\ exit_status = -1

Called(op, exc) == Append(trace, [op |-> op, exc |-> exc])

-----------------------------------------------------------------------------
(* DeepRepoBase.run: where control goes after each stage *)

\* Mutant: the except branch logs and does not return
AfterCollect_NoReturn(exc) == IF exc \notin {"None", "ValueError"} THEN "raised" ELSE "analyze"

\* try: self.collect_data() / except ValueError: log.error(...); return
AfterCollect(exc) ==
    IF exc = "ValueError" THEN "returned"
    ELSE IF exc # "None" THEN "raised"
    ELSE "analyze"

\* self.analyze_data() is not guarded: any exception leaves run
AfterAnalyze(exc) == IF exc # "None" THEN "raised" ELSE "report"

\* self.generate_report() is the last statement
AfterReport(exc) == IF exc # "None" THEN "raised" ELSE "done"

RunCollect ==
    /\ pc = "start"
    /\ LET r == collect_data(issues, repo, open_issues)
       IN  /\ issues' = r.issues
           /\ trace' = Called("collect_data", r.exc)
           /\ log' = IF r.exc = "ValueError"
                     THEN Append(log, "Error collecting data: " \o r.msg)
                     ELSE log
           /\ pc' = AfterCollect(r.exc)
    /\ UNCHANGED <<repo, open_issues, clustering, analysis, report>>
    /\ UNCHANGED others

RunAnalyze ==
    /\ pc = "analyze"
    /\ \E library_raises \in BOOLEAN :
         LET r == analyze_data(issues, analysis, clustering, library_raises)
         IN  /\ analysis' = r.analysis
             /\ trace' = Called("analyze_data", r.exc)
             /\ pc' = AfterAnalyze(r.exc)
    /\ UNCHANGED <<repo, open_issues, clustering, issues, report, log>>
    /\ UNCHANGED others

RunReport ==
    /\ pc = "report"
    /\ LET r == generate_report(analysis)
       IN  /\ report' = r.file
           /\ trace' = Called("generate_report", r.exc)
           /\ pc' = AfterReport(r.exc)
    /\ UNCHANGED <<repo, open_issues, clustering, issues, analysis, log>>
    /\ UNCHANGED others

Next == RunCollect \/ RunAnalyze \/ RunReport

Spec == Init /\ [][Next]_vars

-----------------------------------------------------------------------------
(* The methods called directly on one analyzer object, in any order *)

CallCollect ==
    /\ Len(trace) < MaxCalls
    /\ LET r == collect_data(issues, repo, open_issues)
       IN  /\ issues' = r.issues
           /\ trace' = Called("collect_data", r.exc)
    /\ UNCHANGED <<repo, open_issues, clustering, analysis, report, log, pc>>
    /\ UNCHANGED others

CallAnalyze ==
    /\ Len(trace) < MaxCalls
    /\ \E library_raises \in BOOLEAN :
         LET r == analyze_data(issues, analysis, clustering, library_raises)
         IN  /\ analysis' = r.analysis
             /\ trace' = Called("analyze_data", r.exc)
    /\ UNCHANGED <<repo, open_issues, clustering, issues, report, log, pc>>
    /\ UNCHANGED others

CallReport ==
    /\ Len(trace) < MaxCalls
    /\ LET r == generate_report(analysis)
       IN  /\ report' = IF r.exc = "None" THEN r.file ELSE report
           /\ trace' = Called("generate_report", r.exc)
    /\ UNCHANGED <<repo, open_issues, clustering, issues, analysis, log, pc>>
    /\ UNCHANGED others

NextDirect == CallCollect \/ CallAnalyze \/ CallReport

SpecDirect == Init /\ [][NextDirect]_vars

-----------------------------------------------------------------------------
(* DeepIssuesQuality: the closed issues of the environment *)

\* datetimes and timedeltas are counted in microseconds
Seconds(n) == n * 1000000

\* The closed issue with number n. It was created at second n; the delays to
\* its closing and to its first comment and its reaction count are 0 or 1:
\* the code only sums them and tests the averages against zero. Of an issue
\* that collect_data skips these values are never read: they are left at 0.
ClosedIssuesNumbered(n) ==
    {i \in {[number |-> n, failing_title |-> f, pull |-> p, comments |-> c,
             created_at |-> Seconds(n), closed_at |-> Seconds(n + d),
             first_comment_at |-> Seconds(n + e), reactions |-> r] :
                f \in BOOLEAN, p \in BOOLEAN, c \in 0..1,
                d \in 0..1, e \in 0..1, r \in 0..1} :
        (i.failing_title \/ i.pull \/ i.comments = 0)
            => (i.closed_at = i.created_at /\ i.first_comment_at = i.created_at
                    /\ i.reactions = 0)}

RECURSIVE ClosedLists(_)
ClosedLists(n) ==
    IF n = 0 THEN {<< >>}
    ELSE UNION {{Append(s, i) : i \in ClosedIssuesNumbered(n)} : s \in ClosedLists(n - 1)}

ClosedRepositories == UNION {ClosedLists(n) : n \in 0..MaxClosed}

-----------------------------------------------------------------------------
(* DeepIssuesQuality.collect_data *)

\* "Failing test(s)" in issue.title or issue.comments == 0 or "/pull/" in issue.html_url
Skipped(issue) == issue.failing_title \/ issue.comments = 0 \/ issue.pull

\* The dict appended to self.issues; first_comment_at stands for
\* issue.get_comments(), of which only [0].created_at is read.
QualityRecord(issue) ==
    [title |-> Title(issue.number),
     created_at |-> issue.created_at,
     closed_at |-> issue.closed_at,
     resolution_time |-> issue.closed_at - issue.created_at,
     comments_number |-> issue.comments,
     first_comment_at |-> issue.first_comment_at,
     reactions |-> issue.reactions,
     url |-> HtmlUrl(issue.number)]

RECURSIVE AppendKept(_, _)
AppendKept(self_issues, closed) ==
    IF closed = << >> THEN self_issues
    ELSE AppendKept(IF Skipped(Head(closed)) THEN self_issues
                    ELSE Append(self_issues, QualityRecord(Head(closed))),
                    Tail(closed))

quality_collect_data(self_issues, found, closed) ==
    IF ~found
    THEN [exc |-> "ValueError", msg |-> "Repository not found.", issues |-> self_issues]
    ELSE LET l == AppendKept(self_issues, closed)
         IN  IF l = << >>
             THEN [exc |-> "ValueError", msg |-> "Issues not available", issues |-> l]
             ELSE [exc |-> "None", msg |-> "", issues |-> l]

-----------------------------------------------------------------------------
(* DeepIssuesQuality.analyze_data *)

\* timedelta / int: the quotient in microseconds, rounded half to even
TimedeltaDiv(td, n) ==
    LET q == td \div n
        r == td % n
    IN  IF 2 * r > n \/ (2 * r = n /\ q % 2 = 1) THEN q + 1 ELSE q

\* int / int, true division: the exact quotient as a fraction
TrueDiv(a, b) == [num |-> a, den |-> b]

\* sorted(l, key=lambda x: x[field], reverse=True), stable
RECURSIVE InsertByField(_, _, _)
InsertByField(s, x, field) ==
    IF s = << >> THEN <<x>>
    ELSE IF Head(s)[field] >= x[field]
         THEN <<Head(s)>> \o InsertByField(Tail(s), x, field)
         ELSE <<x>> \o s

RECURSIVE SortByField(_, _)
SortByField(l, field) ==
    IF l = << >> THEN << >>
    ELSE InsertByField(SortByField(SubSeq(l, 1, Len(l) - 1), field), l[Len(l)], field)

\* l[:10]
FirstTen(l) == SubSeq(l, 1, IF Len(l) < 10 THEN Len(l) ELSE 10)

RECURSIVE SumField(_, _)
SumField(l, field) == IF l = << >> THEN 0 ELSE Head(l)[field] + SumField(Tail(l), field)

\* _issue_resolution_analysis: the average it returns
average_open_time(l) ==
    IF Len(l) > 0 THEN TimedeltaDiv(SumField(l, "resolution_time"), Len(l)) ELSE 0

\* _issue_comments_analysis: the issues its loop does not skip, each with the
\* time to its first comment
RECURSIVE FirstReactions(_)
FirstReactions(l) ==
    IF l = << >> THEN << >>
    ELSE (IF Head(l).comments_number = 0 THEN << >>
          ELSE <<[title |-> Head(l).title,
                  first_reaction_time |-> Head(l).first_comment_at - Head(l).created_at,
                  url |-> Head(l).url]>>)
         \o FirstReactions(Tail(l))

\* the same loop: total_comments / count over the issues it does not skip
HasComments(issue) == issue.comments_number # 0

average_comment_number(l) ==
    LET counted == SelectSeq(l, HasComments)
    IN  IF Len(counted) > 0
        THEN TrueDiv(SumField(counted, "comments_number"), Len(counted))
        ELSE TrueDiv(0, 1)

average_reaction_time(l) ==
    LET fr == FirstReactions(l)
    IN  IF Len(fr) > 0 THEN TimedeltaDiv(SumField(fr, "first_reaction_time"), Len(fr))
        ELSE 0

\* _reactions_analysis: the average it returns
average_reaction_count(l) ==
    IF Len(l) > 0 THEN TrueDiv(SumField(l, "reactions"), Len(l)) ELSE TrueDiv(0, 1)

\* The exception analyze_data ends with and the attributes it has set
\* (<< >>: none of them exists yet).
quality_analyze_data(self_issues, self_analysis) ==
    IF self_issues = << >>
    THEN [exc |-> "ValueError", analysis |-> self_analysis]
    ELSE [exc |-> "None",
          analysis |-> <<[
              average_open_time |-> average_open_time(self_issues),
              longest_resolution_issues |->
                  FirstTen(SortByField(self_issues, "resolution_time")),
              average_reaction_time |-> average_reaction_time(self_issues),
              longest_reaction_issues |->
                  FirstTen(SortByField(FirstReactions(self_issues), "first_reaction_time")),
              average_comment_number |-> average_comment_number(self_issues),
              most_commented_issues |->
                  FirstTen(SortByField(self_issues, "comments_number")),
              average_reaction_count |-> average_reaction_count(self_issues),
              most_engaging_issues |->
                  FirstTen(SortByField(self_issues, "reactions"))]>>]

-----------------------------------------------------------------------------
(* DeepIssuesQuality.generate_report *)

\* Truth values: a timedelta is false when it is zero, a float when it is 0.0
TruthyTimedelta(td) == td # 0
TruthyFloat(x) == x.num # 0

\* One numbered line per issue of a list: position, title, value, url
NumberedLines(l, field) ==
    [i \in 1..Len(l) |-> <<IntStr(i) \o ". " \o l[i].title \o " - ", l[i][field], l[i].url>>]

\* The exception generate_report ends with and what it wrote. Each write is a
\* tuple: its literal text and the values formatted into it.
quality_generate_report(self_analysis, label) ==
    IF self_analysis = << >>
    THEN [exc |-> "AttributeError", file |-> << >>]
    ELSE LET a == self_analysis[1]
         IN  IF \/ ~TruthyTimedelta(a.average_open_time)
                \/ ~TruthyTimedelta(a.average_reaction_time)
                \/ ~TruthyFloat(a.average_reaction_count)
             THEN [exc |-> "ValueError", file |-> << >>]
             ELSE [exc |-> "None",
                   file |->
                      (IF label
                       THEN <<<<"# Issues Quality Analysis Report for issues with in "
                                   \o repo_url \o "\n\n">>,
                              <<"**Filtered by label(s):**">>>>
                       ELSE <<<<"# Issues Quality Analysis Report for "
                                   \o repo_url \o "\n\n">>>>)
                      \o <<<<"## Issues resolution time\n\n">>,
                           <<"Average time of issue resolution: ", a.average_open_time>>,
                           <<"### Issues with the longest resolution time\n\n">>>>
                      \o NumberedLines(a.longest_resolution_issues, "resolution_time")
                      \o <<<<Separator>>,
                           <<"## Time to first comment\n\n">>,
                           <<"Average time to first comment: ", a.average_reaction_time>>,
                           <<"### Issues with the longest time to first comment\n\n">>>>
                      \o NumberedLines(a.longest_reaction_issues, "first_reaction_time")
                      \o <<<<Separator>>,
                           <<"## The most commented issues\n\n">>,
                           <<"Average number of comments: ", a.average_comment_number>>,
                           <<"### List of the most commented issues\n\n">>>>
                      \o NumberedLines(a.most_commented_issues, "comments_number")
                      \o <<<<Separator>>,
                           <<"## The most engaging issues\n\n">>,
                           <<"Average number of reactions for issue: ",
                             a.average_reaction_count>>,
                           <<"### List of the most engaging issues\n\n">>>>
                      \o NumberedLines(a.most_engaging_issues, "reactions")
                      \o <<<<Separator>>>>]

-----------------------------------------------------------------------------
(* DeepRepoBase.run on a fresh DeepIssuesQuality *)

InitQuality ==
    /\ repo \in BOOLEAN
    /\ closed_issues \in (IF repo THEN ClosedRepositories ELSE {<< >>})
    /\ ISSUE_LABEL \in BOOLEAN
    /\ quality = [issues |-> << >>, analysis |-> << >>]
    /\ open_issues = << >>
    /\ clustering = << >>
    /\ issues = << >>
    /\ analysis = << >>
    /\ report = << >>
    /\ log = << >>
    /\ trace = << >>
    /\ pc = "start"
    /\ runs = << >>
    /\ exit_status = -1

QualityCollect ==
    /\ pc = "start"
    /\ LET r == quality_collect_data(quality.issues, repo, closed_issues)
       IN  /\ quality' = [quality EXCEPT !.issues = r.issues]
           /\ trace' = Called("collect_data", r.exc)
           /\ log' = IF r.exc = "ValueError"
                     THEN Append(log, "Error collecting data: " \o r.msg)
                     ELSE log
           /\ pc' = AfterCollect(r.exc)
    /\ UNCHANGED <<repo, open_issues, clustering, issues, analysis, report>>
    /\ UNCHANGED <<closed_issues, ISSUE_LABEL, runs, exit_status>>

QualityAnalyze ==
    /\ pc = "analyze"
    /\ LET r == quality_analyze_data(quality.issues, quality.analysis)
       IN  /\ quality' = [quality EXCEPT !.analysis = r.analysis]
           /\ trace' = Called("analyze_data", r.exc)
           /\ pc' = AfterAnalyze(r.exc)
    /\ UNCHANGED <<repo, open_issues, clustering, issues, analysis, report, log>>
    /\ UNCHANGED <<closed_issues, ISSUE_LABEL, runs, exit_status>>

QualityReport ==
    /\ pc = "report"
    /\ LET r == quality_generate_report(quality.analysis, ISSUE_LABEL)
       IN  /\ report' = r.file
           /\ trace' = Called("generate_report", r.exc)
           /\ pc' = AfterReport(r.exc)
    /\ UNCHANGED <<repo, open_issues, clustering, issues, analysis, log>>
    /\ UNCHANGED others

NextQuality == QualityCollect \/ QualityAnalyze \/ QualityReport

SpecQuality == InitQuality /\ [][NextQuality]_vars

-----------------------------------------------------------------------------
(* DeepCodeQuality: the exception each stage ends with *)

\* The environment of the analyzer: REPO_PATH ("unset", "mismatch": it does
\* not contain repo_url + "/", "missing": no such directory, "ok"), whether
\* git rev-parse HEAD succeeds, and the number of TODO lines of each file of
\* the directory that matches RESOURCE_PATTERN.
CodeEnvironments ==
    UNION {[REPO_PATH : {"unset", "mismatch", "missing", "ok"},
            git_ok : BOOLEAN,
            todos : [1..n -> 0..1]] : n \in 0..MaxResources}

code_collect_data(env) ==
    IF env.REPO_PATH = "unset" THEN "EnvironmentError"
    ELSE IF env.REPO_PATH = "mismatch" THEN "ValueError"
    ELSE IF env.REPO_PATH = "missing" THEN "FileNotFoundError"
    ELSE IF ~env.git_ok THEN "RuntimeError"
    ELSE IF Len(env.todos) = 0 THEN "FileNotFoundError"
    ELSE "None"

\* self.todo_resources: the files in which a TODO line was found
todo_resources(env) == {f \in 1..Len(env.todos) : env.todos[f] > 0}

code_analyze_data(env) == "None"

code_generate_report(env) == IF todo_resources(env) = {} THEN "ValueError" ELSE "None"

-----------------------------------------------------------------------------
(* DeepRepoBase.run as a whole: the stage calls one run makes *)

\* c, a, g: the exceptions collect_data, analyze_data and generate_report end
\* with when run calls them
RunCalls(c, a, g) ==
    LET t1 == <<[op |-> "collect_data", exc |-> c]>>
        t2 == Append(t1, [op |-> "analyze_data", exc |-> a])
        t3 == Append(t2, [op |-> "generate_report", exc |-> g])
    IN  IF AfterCollect(c) # "analyze" THEN t1
        ELSE IF AfterAnalyze(a) # "report" THEN t2
        ELSE t3

\* How the run that made these calls ended: "returned", "done" or "raised"
RunEnd(calls) ==
    LET last == calls[Len(calls)].exc
    IN  IF Len(calls) = 1 THEN AfterCollect(last)
        ELSE IF Len(calls) = 2 THEN AfterAnalyze(last)
        ELSE AfterReport(last)

IssuesRun(found, oi, lv, library_raises) ==
    LET c == collect_data(<< >>, found, oi)
        a == analyze_data(c.issues, << >>, lv, library_raises)
        g == generate_report(a.analysis)
    IN  RunCalls(c.exc, a.exc, g.exc)

QualityRun(found, closed, label) ==
    LET c == quality_collect_data(<< >>, found, closed)
        a == quality_analyze_data(c.issues, << >>)
        g == quality_generate_report(a.analysis, label)
    IN  RunCalls(c.exc, a.exc, g.exc)

CodeRun(env) ==
    RunCalls(code_collect_data(env), code_analyze_data(env), code_generate_report(env))

\* The runs each analyzer can make, over all its environments; found: what
\* git_api.get_repo returns, the same for every analyzer of one process.
IssuesRuns[found \in BOOLEAN] ==
    UNION {UNION {{IssuesRun(found, oi, lv, lib) : lib \in BOOLEAN} :
                      lv \in LabelVectors[DistinctTitles(oi)]} :
               oi \in (IF found THEN Repositories ELSE {<< >>})}

QualityRuns[found \in BOOLEAN] ==
    {QualityRun(found, closed, label) :
        closed \in (IF found THEN ClosedRepositories ELSE {<< >>}), label \in BOOLEAN}

CodeRuns == {CodeRun(env) : env \in CodeEnvironments}

\* DeepBoomerangs and DeepResourceAnalysis: subclasses of DeepRepoBase whose
\* stages may return, raise ValueError or raise another exception.
OtherRuns ==
    {RunCalls(c, a, g) : c \in {"None", "ValueError", "Error"},
                         a \in {"None", "ValueError", "Error"},
                         g \in {"None", "ValueError", "Error"}}

-----------------------------------------------------------------------------
(* DeepRepo.deep_repo_main with --all *)

ANALYZERS == <<"issues", "boomerangs", "issue_quality", "resource_analysis", "code_quality">>

\* deep_repo_factory(analyzer_type) followed by run(): the runs it can make
RunsOf(analyzer_type, found) ==
    IF analyzer_type = "issues" THEN IssuesRuns[found]
    ELSE IF analyzer_type = "issue_quality" THEN QualityRuns[found]
    ELSE IF analyzer_type = "code_quality" THEN CodeRuns
    ELSE OtherRuns

InitAll ==
    /\ repo \in BOOLEAN
    /\ runs = << >>
    /\ exit_status = -1
    /\ open_issues = << >>
    /\ clustering = << >>
    /\ issues = << >>
    /\ analysis = << >>
    /\ report = << >>
    /\ log = << >>
    /\ trace = << >>
    /\ pc = "start"
    /\ closed_issues = << >>
    /\ ISSUE_LABEL = FALSE
    /\ quality = [issues |-> << >>, analysis |-> << >>]

\* One round of the loop over ANALYZERS.keys(): the next analyzer is built and
\* run; an exception that leaves run leaves deep_repo_main too and ends the
\* process with status 1.
MainRunAnalyzer ==
    /\ exit_status = -1
    /\ Len(runs) < Len(ANALYZERS)
    /\ LET analyzer_type == ANALYZERS[Len(runs) + 1]
       IN  \E calls \in RunsOf(analyzer_type, repo) :
              /\ runs' = Append(runs, [analyzer |-> analyzer_type, calls |-> calls])
              /\ exit_status' = IF RunEnd(calls) = "raised" THEN 1 ELSE -1
    /\ UNCHANGED <<repo, open_issues, clustering, issues, analysis, report, log, trace, pc>>
    /\ UNCHANGED <<closed_issues, ISSUE_LABEL, quality>>

\* sys.exit(0) after the loop
MainExit ==
    /\ exit_status = -1
    /\ Len(runs) = Len(ANALYZERS)
    /\ exit_status' = 0
    /\ UNCHANGED <<repo, open_issues, clustering, issues, analysis, report, log, trace, pc>>
    /\ UNCHANGED <<closed_issues, ISSUE_LABEL, quality, runs>>

NextAll == MainRunAnalyzer \/ MainExit

SpecAll == InitAll /\ [][NextAll]_vars

-----------------------------------------------------------------------------
(* Vocabulary of the properties *)

\* How the analyze_data call of run ended; under Spec it is always call 2.
AnalyzeOutcome == IF Len(trace) >= 2 THEN trace[2].exc ELSE "NotCalled"

\* analyze_data got past the embedding and the clusterer: it grouped and sorted
Grouped == AnalyzeOutcome \in {"None", "KeyError"}

Positions == 1..Len(analysis)
NonNoise == {g \in Positions : analysis[g].key # NOISE}
Size(g) == Len(analysis[g].val)

\* How often entry e occurs in all the groups together
Occurrences(e) ==
    Cardinality({<<g, j>> \in Positions \X (1..(2 * MaxIssues + 2)) :
                    j <= Size(g) /\ analysis[g].val[j] = e})

RECURSIVE SumSizes(_)
SumSizes(g) == IF g = 0 THEN 0 ELSE Size(g) + SumSizes(g - 1)

-----------------------------------------------------------------------------
(* Properties *)

\* C1: when the clusterer labels no item as noise, analyze_data returns
\* without raising and self.analysis holds exactly the groups of the labels
\* the clusterer used, none of them a noise group.
C1_NoNoiseCompletes ==
    (Grouped /\ NOISE \notin Range(clustering))
        => /\ AnalyzeOutcome = "None"
           /\ Keys(analysis) = Range(clustering)
           /\ Len(analysis) = Cardinality(Range(clustering))

\* C2: after analyze_data on a fresh analyzer every collected issue's entry
\* occurs exactly once in all of self.analysis, no other entry occurs, and no
\* group is empty.
C2_Partition ==
    Grouped
        => /\ \A g \in Positions : Size(g) >= 1
           /\ \A k \in 1..Len(issues) : Occurrences(FormatEntry(issues[k])) = 1
           /\ SumSizes(Len(analysis)) = Len(issues)

C2_Witness ==
    /\ AnalyzeOutcome = "None"
    /\ Len(analysis) >= 3
    /\ Len(issues) = MaxIssues
    /\ Len(open_issues) = MaxIssues

\* C3: when some item is labeled noise, the noise group is the last group of
\* self.analysis after analyze_data.
C3_NoiseLast ==
    (Grouped /\ NOISE \in Range(clustering))
        => analysis[Len(analysis)].key = NOISE

\* the noise group is strictly larger than every other group, and there are others
C3_Witness ==
    /\ AnalyzeOutcome = "None"
    /\ Len(analysis) >= 2
    /\ analysis[Len(analysis)].key = NOISE
    /\ \A g \in NonNoise : Size(g) < Size(Len(analysis))

\* C4: after analyze_data the non-noise groups stand in non-increasing order
\* of size, wherever the noise group is and whatever its size.
C4_SortedBySize ==
    Grouped
        => \A g, h \in NonNoise : g < h => Size(g) >= Size(h)

\* the clusterer's first label is noise, then a smaller cluster is met before
\* a larger one
C4_Witness ==
    /\ AnalyzeOutcome = "None"
    /\ clustering[1] = NOISE
    /\ Cardinality(NonNoise) = 2
    /\ Size(1) > Size(2)
    /\ analysis[1].key = 1

\* C5: a second analyze_data call on the same analyzer, straight after one
\* that returned, with the same issues and the same labels, leaves
\* self.analysis as the first call left it.
C5_SecondCallSame ==
    [][(/\ trace # << >>
        /\ trace[Len(trace)] = [op |-> "analyze_data", exc |-> "None"]
        /\ trace' = Append(trace, [op |-> "analyze_data", exc |-> "None"]))
            => analysis' = analysis]_vars

\* C6: when analyze_data raises on a fresh analyzer, self.analysis is still
\* empty, as it was before the call.
C6_NoPartialResult ==
    AnalyzeOutcome \notin {"NotCalled", "None"} => analysis = << >>

\* C7: for a repository without open issues collect_data raises ValueError,
\* run logs it and returns, and analyze_data and generate_report are not
\* called: self.analysis stays empty and no report is written.
C7_EmptyNeverAnalyzed ==
    (repo /\ open_issues = << >> /\ pc # "start")
        => /\ pc = "returned"
           /\ trace = <<[op |-> "collect_data", exc |-> "ValueError"]>>
           /\ log = <<"Error collecting data: Issues not available">>
           /\ analysis = << >>
           /\ report = << >>

C7_Witness == repo /\ open_issues = << >> /\ pc = "returned" /\ Len(log) = 1

Stages == <<"collect_data", "analyze_data", "generate_report">>

\* Where run is expected to stand once its first k stages have returned
ExpectedPosition(k) == <<"analyze", "report", "done">>[k]

\* C8: at every point of run the stages called so far are a prefix of
\* collect_data, analyze_data, generate_report, each called once, and every
\* stage but the last called returned normally; run goes on exactly while the
\* last stage returned and a stage is left; it ends either with all three
\* returned or at the first stage that raised.
C8_AllOrFirstFailure ==
    /\ Len(trace) <= Len(Stages)
    /\ \A k \in 1..Len(trace) : trace[k].op = Stages[k]
    /\ \A k \in 1..(Len(trace) - 1) : trace[k].exc = "None"
    /\ pc \in {"start", "analyze", "report", "done", "returned", "raised"}
    /\ pc = "start" <=> trace = << >>
    /\ pc \in {"analyze", "report"}
          => trace[Len(trace)].exc = "None" /\ pc = ExpectedPosition(Len(trace))
    /\ pc = "done" <=> (Len(trace) = Len(Stages) /\ trace[Len(Stages)].exc = "None")
    /\ pc \in {"returned", "raised"} <=> (trace # << >> /\ trace[Len(trace)].exc # "None")

\* analyze_data raised: run ended there and generate_report never started
C8_Witness ==
    /\ pc = "raised"
    /\ Len(trace) = 2
    /\ trace[2] = [op |-> "analyze_data", exc |-> "KeyError"]
    /\ report = << >>

\* The lines of the report that head a group
IsHeading(line) ==
    line \in {"### Group Other:\n\n"}
                \cup {"### Group " \o IntStr(n) \o ":\n\n" : n \in 0..(MaxIssues + 1)}

Headings == SelectSeq(report, IsHeading)

AllNoise == \A i \in 1..Len(clustering) : clustering[i] = NOISE

\* C9: when every item is labeled noise, analyze_data returns with exactly
\* one group, which holds all the items, and the report carries exactly one
\* group heading, "Group Other".
C9_AllNoiseOneOther ==
    (Grouped /\ AllNoise)
        => /\ AnalyzeOutcome = "None"
           /\ Len(analysis) = 1
           /\ Size(1) = Len(issues)
           /\ pc = "done" => Headings = <<"### Group Other:\n\n">>

\* a single collected issue, labeled noise, and the report written
C9_Witness == pc = "done" /\ AllNoise /\ Len(issues) = 1 /\ Len(Headings) = 1

\* The number of non-noise groups at positions 1..g
Rank(g) == Cardinality({h \in NonNoise : h <= g})

\* C10: the report's group headings are, in output order, "Group 1" to
\* "Group k" for the k non-noise groups and "Group Other" for the noise group.
C10_HeadingNumbers ==
    pc = "done"
        => Headings = [g \in Positions |->
                          IF analysis[g].key = NOISE THEN "### Group Other:\n\n"
                          ELSE "### Group " \o IntStr(Rank(g)) \o ":\n\n"]

\* two numbered groups whose labels differ from their positions, and noise
C10_Witness ==
    /\ pc = "done"
    /\ Len(Headings) = 3
    /\ analysis[1].key = 1
    /\ analysis[2].key = 0
    /\ analysis[3].key = NOISE

\* The first position of label l in the clusterer's label sequence
FirstSeen(l) == CHOOSE i \in 1..Len(clustering) :
                    clustering[i] = l /\ \A j \in 1..(i - 1) : clustering[j] # l

\* C11: among non-noise groups of equal size, the group whose label is met
\* earlier in the clusterer's label sequence comes first.
C11_TiesFirstEncountered ==
    Grouped
        => \A g, h \in NonNoise :
              (g < h /\ Size(g) = Size(h))
                  => FirstSeen(analysis[g].key) < FirstSeen(analysis[h].key)

\* two clusters of equal size, the larger label met first and standing first
C11_Witness ==
    /\ AnalyzeOutcome = "None"
    /\ Cardinality(NonNoise) = 2
    /\ Size(1) = Size(2)
    /\ analysis[1].key = 1
    /\ clustering[1] = NOISE

\* The titles of the repository's open issues
OpenTitles == {open_issues[i].title : i \in 1..Len(open_issues)}

\* C12: after collect_data on a fresh analyzer self.issues holds one entry
\* per distinct title of the open issues: as many entries as distinct titles,
\* no title twice.
C12_OneEntryPerTitle ==
    (pc # "start" /\ repo)
        => /\ Len(issues) = Cardinality(OpenTitles)
           /\ Keys(issues) = OpenTitles
           /\ \A i, j \in 1..Len(issues) : issues[i].key = issues[j].key => i = j

\* open issues share titles: fewer records than open issues
C12_Witness ==
    /\ pc = "analyze"
    /\ Len(open_issues) = MaxIssues
    /\ Len(issues) = 2

CompletedLabels == Keys(analysis) \ {NOISE}
GroupSize(l) == Len(analysis[IndexOf(analysis, l)].val)

\* C13: among non-noise groups of equal size the group with the smaller label
\* value precedes the group with the larger label value.
C13_TiesBySmallerLabel ==
    AnalyzeOutcome = "None"
        => \A a, b \in CompletedLabels :
              (a < b /\ GroupSize(a) = GroupSize(b))
                  => IndexOf(analysis, a) < IndexOf(analysis, b)

\* C13, amended: among non-noise groups of equal size the group with the
\* smaller label value precedes the one with the larger label value exactly
\* when the smaller label is met first in the clusterer's label sequence;
\* when the larger label is met first, its group comes first.
C13_TiesByLabelWhenSeenFirst ==
    Grouped
        => \A a, b \in CompletedLabels :
              (a < b /\ GroupSize(a) = GroupSize(b))
                  => (IndexOf(analysis, a) < IndexOf(analysis, b)
                        <=> FirstSeen(a) < FirstSeen(b))

\* equal clusters 0 and 1, label 0 met first and its group first
C13_Witness ==
    /\ AnalyzeOutcome = "None"
    /\ CompletedLabels = {0, 1}
    /\ GroupSize(0) = GroupSize(1)
    /\ FirstSeen(0) < FirstSeen(1)
    /\ analysis[1].key = 0

\* The place in self.issues of the issue that entry e was formatted from
CollectedAt(e) == CHOOSE k \in 1..Len(issues) : FormatEntry(issues[k]) = e

\* C16: inside every group of self.analysis, the noise group too, the entries
\* stand in the order in which their issues stand in self.issues.
C16_MembersInCollectionOrder ==
    Grouped
        => \A g \in Positions : \A j, k \in 1..Size(g) :
              j < k => CollectedAt(analysis[g].val[j]) < CollectedAt(analysis[g].val[k])

\* the sort has moved the larger cluster, met later, to the front and the
\* noise group, met first, to the end
C16_Witness ==
    /\ AnalyzeOutcome = "None"
    /\ Len(analysis) = 3
    /\ clustering[1] = NOISE
    /\ analysis[1].key = 1
    /\ Size(1) = 3
    /\ Size(2) = 2
    /\ FirstSeen(0) < FirstSeen(1)

\* C15: once DeepIssuesQuality.analyze_data has returned on a non-empty list
\* of collected issues, generate_report writes the report and raises nothing,
\* whatever the issues' values, also when an average is zero.
C15_ReportAfterAnalysis ==
    (Len(trace) = 3 /\ trace[2].exc = "None" /\ quality.issues # << >>)
        => trace[3].exc = "None" /\ report # << >> /\ pc = "done"

\* The run's collect_data raised ValueError
CollectFailed(k) == runs[k].calls[1].exc = "ValueError"

\* The run ended with an exception that run does not catch: any exception of
\* analyze_data or generate_report, or one of collect_data other than ValueError
Uncaught(k) ==
    LET calls == runs[k].calls
    IN  /\ calls[Len(calls)].exc # "None"
        /\ ~(Len(calls) = 1 /\ calls[1].exc = "ValueError")

\* C14: in --all mode the analyzers are run in ANALYZERS order; when the
\* process has ended and the collect_data of one analyzer had raised
\* ValueError, that analyzer made no other stage call, all five analyzers
\* were run and the exit status is 0. (Stated for the processes in which no
\* analyzer before the last one, code_quality, raises anything that leaves run.)
C14_AllRunExitZero ==
    (/\ exit_status # -1
     /\ \E k \in 1..Len(runs) : CollectFailed(k)
     /\ \A k \in 1..Len(runs) : runs[k].analyzer # "code_quality" => ~Uncaught(k))
        => /\ Len(runs) = Len(ANALYZERS)
           /\ \A k \in 1..Len(runs) : runs[k].analyzer = ANALYZERS[k]
           /\ \A k \in 1..Len(runs) : CollectFailed(k) => Len(runs[k].calls) = 1
           /\ exit_status = 0

\* C14, amended: the analyzers are run in ANALYZERS order, each at most once;
\* an analyzer whose collect_data raised ValueError makes no other stage call
\* and does not end the process: the loop goes on to the next analyzer, or to
\* exit status 0 after the last one; an analyzer is run only when no earlier
\* one raised an exception that run does not catch; the process ends with
\* status 0 exactly after all five ran without such an exception, and with
\* status 1 exactly at the analyzer that raised one.
C14_AllModeLoop ==
    /\ Len(runs) <= Len(ANALYZERS)
    /\ \A k \in 1..Len(runs) :
          /\ runs[k].analyzer = ANALYZERS[k]
          /\ CollectFailed(k) => Len(runs[k].calls) = 1
          /\ k < Len(runs) => ~Uncaught(k)
    /\ exit_status \in {-1, 0, 1}
    /\ exit_status = 0 => Len(runs) = Len(ANALYZERS)
    /\ exit_status = 1 <=> (runs # << >> /\ Uncaught(Len(runs)))
    /\ (exit_status = -1 /\ Len(runs) < Len(ANALYZERS)) => ENABLED MainRunAnalyzer
    /\ (exit_status = -1 /\ Len(runs) = Len(ANALYZERS)) => ENABLED MainExit

\* the issues analyzer found no open issue, the issue-quality analyzer ran
\* all its stages, and the process exited with 0 after the fifth analyzer
C14_Witness ==
    /\ exit_status = 0
    /\ Len(runs) = Len(ANALYZERS)
    /\ CollectFailed(1)
    /\ Len(runs[3].calls) = 3
    /\ CollectFailed(5)

====
